---- MODULE Spec2Model ----
(***************************************************************************)
(* Model of packages/parser-js/src/index.js: parseJavaScript, _addComment  *)
(* and leftPad.  A run of parseJavaScript walks one syntax tree with the   *)
(* strategies chosen from the configuration; every comment a walker finds  *)
(* is handed to _addComment, which deduplicates by the comment's start     *)
(* position, builds the context and the sort key, has the comment parsed,  *)
(* records it for its documentation target and applies the constructor     *)
(* rule.  Strings are sequences of UTF-16 code units, comment records live *)
(* in a heap (recs) and are referred to by their index.                    *)
(***************************************************************************)
EXTENDS Integers, Sequences, FiniteSets, TLC

VARIABLES
  pc,             \* "idle" | "walking" | "done": position of parseJavaScript
  files,          \* history: the files parseJavaScript was invoked on
  findTarget,     \* the target resolution in use (./infer/finders)
  data,           \* the module-deps item of the current run
  config,         \* the configuration of the current run
  visited,        \* Set of comment keys (index.js:42)
  commentsByNode, \* Map node -> comment record (index.js:43)
  recs,           \* heap of comment records, in the order parse() made them
  strategies,     \* the walkers flatMap iterates over (index.js:49-55)
  si,             \* index of the walker that is running
  results,        \* one array of callback results per walker started
  output,         \* what parseJavaScript returned
  log,            \* history: the callbacks of this run, in call order, each
                  \* with the association map it found and what it returned
  failure,        \* what a collaborator raised in this run and what came
                  \* out of parseJavaScript for it
  sk              \* inputs and outputs of the sort-key builder on its own

vars == <<pc, files, findTarget, data, config, visited, commentsByNode, recs,
          strategies, si, results, output, log, failure, sk>>

runVars == <<pc, files, findTarget, data, config, visited, commentsByNode, recs,
             strategies, si, results, output, log, failure>>

(***************************************************************************)
(* Bounds                                                                  *)
(***************************************************************************)
MaxCalls == 3      \* callbacks per run
MaxRuns == 2       \* invocations of parseJavaScript, when several are followed
MaxRunCalls == 2   \* callbacks per run, when several runs are followed

(***************************************************************************)
(* Strings                                                                 *)
(***************************************************************************)
Zero == 48         \* '0'
Colon == 58        \* ':'
Space == 32        \* ' '
Width == 8         \* the width sort keys are padded to

undefined == "undefined"

\* no error was raised
noError == "none"

\* the run of a file whose collaborators raised nothing
noFailure == [raised |-> noError, thrown |-> noError]

\* a callback result or a record field that holds no comment (undefined);
\* comment records are referred to by their index in recs, from 1
noComment == 0

\* Number.prototype.toString for a non-negative integer: decimal digits
RECURSIVE toString(_)
toString(n) ==
  IF n < 10 THEN <<Zero + n>>
  ELSE toString(n \div 10) \o <<Zero + (n % 10)>>

\* the while loop of leftPad
RECURSIVE padLoop(_, _)
padLoop(str, width) ==
  IF Len(str) < width THEN padLoop(<<Zero>> \o str, width) ELSE str

\* a plausible slip: the padding is appended instead of prepended
RECURSIVE padRight(_, _)
padRight(str, width) ==
  IF Len(str) < width THEN padRight(str \o <<Zero>>, width) ELSE str

leftPad_appends(str, width) == padRight(toString(str), width)

leftPad(str, width) == padLoop(toString(str), width)

\* data.sortKey + ' ' + leftPad(nodeLoc.start.line, 8)
sortKeyOf(base, line) == base \o <<Space>> \o leftPad(line, Width)

\* a < b on JavaScript strings: code unit by code unit, a proper prefix first
RECURSIVE StrLess(_, _)
StrLess(a, b) ==
  IF b = <<>> THEN FALSE
  ELSE IF a = <<>> THEN TRUE
  ELSE IF Head(a) # Head(b) THEN Head(a) < Head(b)
  ELSE StrLess(Tail(a), Tail(b))

\* String.prototype.substring(start, end) for 0 <= start <= end <= length
substring(s, start, end) == SubSeq(s, start + 1, end)

(***************************************************************************)
(* The inputs: files, the syntax tree, the comments found in it            *)
(***************************************************************************)
Files == { <<97>>, <<98>> }                  \* "a", "b"

\* the file of the first run (the names of the files are interchangeable)
FirstFile == <<97>>

Source == <<99, 123, 107, 125, 59, 118>>     \* "c{k};v"

\* fs.readFileSync(file, 'utf8'): every file holds that text
readFileSync(file) == Source

\* the tree parseToAst returns: a class with a constructor, followed by a
\* sibling variable declaration
Nodes == {"Program", "Class", "ClassBody", "Ctor", "VarDecl", "Declarator"}

Ast ==
  [ Program    |-> [type |-> "Program", kind |-> undefined,
                    parent |-> undefined, start |-> 0, end |-> 6, line |-> 1],
    Class      |-> [type |-> "ClassDeclaration", kind |-> undefined,
                    parent |-> "Program", start |-> 0, end |-> 4, line |-> 9],
    ClassBody  |-> [type |-> "ClassBody", kind |-> undefined,
                    parent |-> "Class", start |-> 1, end |-> 4, line |-> 9],
    Ctor       |-> [type |-> "ClassMethod", kind |-> "constructor",
                    parent |-> "ClassBody", start |-> 2, end |-> 3, line |-> 10],
    VarDecl    |-> [type |-> "VariableDeclaration", kind |-> "var",
                    parent |-> "Program", start |-> 5, end |-> 6, line |-> 100],
    Declarator |-> [type |-> "VariableDeclarator", kind |-> undefined,
                    parent |-> "VarDecl", start |-> 5, end |-> 6, line |-> 100] ]

\* the nodes comments are attached to
CommentedNodes == {"Class", "Ctor", "VarDecl"}

\* path.parentPath (undefined above the root)
parentPath(path) == IF path = undefined THEN undefined ELSE Ast[path].parent

\* the physical comments of the file: raw text (its tags) and own location
Comments ==
  { [value |-> {},                  loc |-> [line |-> 1,  column |-> 11]],
    [value |-> {"hideconstructor"}, loc |-> [line |-> 11, column |-> 1]],
    [value |-> {"lends"},           loc |-> [line |-> 99, column |-> 0]] }

\* the target resolutions: unwrap a declaration to its declarator (and find
\* nothing for a class member), or resolve a member to the enclosing class
FindTargets ==
  { [Program |-> "Program", Class |-> "Class", ClassBody |-> undefined,
     Ctor |-> undefined, VarDecl |-> "Declarator",
     Declarator |-> "Declarator"],
    [Program |-> "Program", Class |-> "Class", ClassBody |-> "Class",
     Ctor |-> "Class", VarDecl |-> "VarDecl",
     Declarator |-> "Declarator"] }

\* the content parser: the record for one comment
parse(commentValue, commentLoc, context) ==
  [ loc |-> commentLoc,
    context |-> context,
    lends |-> "lends" \in commentValue,
    hideconstructor |-> "hideconstructor" \in commentValue,
    constructorComment |-> noComment ]

(***************************************************************************)
(* _addComment, piece by piece                                             *)
(***************************************************************************)
\* data.file + ':' + commentLoc.start.line + ':' + commentLoc.start.column
keyOf(file, commentLoc) ==
  file \o <<Colon>> \o toString(commentLoc.line)
       \o <<Colon>> \o toString(commentLoc.column)

\* a plausible slip: the test of the visited set always fails
hasVisited_never(set, key) == FALSE

\* visited.has(key)
hasVisited(set, key) == key \in set

\* a plausible slip: the key is never recorded
addVisited_forgets(set, key) == set

\* visited.add(key)
addVisited(set, key) == set \cup {key}

\* the context handed to the content parser
contextOf(d, path, nodeLoc, includeContext) ==
  [ loc |-> nodeLoc,
    file |-> d.file,
    sortKey |-> sortKeyOf(d.sortKey, nodeLoc.line),
    ast |-> IF includeContext THEN path ELSE undefined,
    code |-> IF includeContext /\ parentPath(path) # undefined
             THEN substring(d.source, Ast[parentPath(path)].start,
                            Ast[parentPath(path)].end)
             ELSE undefined ]

\* (findTarget(path) || path).node
targetOf(resolve, path) ==
  IF resolve[path] # undefined THEN resolve[path] ELSE path

\* t.isClassMethod(path) && path.node.kind === 'constructor'
isConstructor(path) ==
  Ast[path].type = "ClassMethod" /\ Ast[path].kind = "constructor"

\* a plausible slip: one parentPath only, the class body
enclosingClass_body(path) == parentPath(path)

\* path.parentPath.parentPath.node
enclosingClass(path) == parentPath(parentPath(path))

\* new Map(): no node has a comment
newMap == [n \in Nodes |-> noComment]

\* a plausible slip: the set is created once for the module and lives on
newSet_shared == visited

\* new Set()
newSet == {}

\* commentsByNode.get(node)
mapGet(map, node) == map[node]

\* commentsByNode.set(node, comment)
mapSet(map, node, comment) == [map EXCEPT ![node] = comment]

\* a plausible slip: the test of the marker is lost, nothing is hidden
hidesConstructor_never(comment) == FALSE

\* a plausible slip: every constructor comment without a parent is dropped
hidesConstructor_always(comment) == TRUE

\* if (comment.hideconstructor) return;
hidesConstructor(comment) == comment.hideconstructor

\* a plausible slip: the test of the flag is lost, every comment is associated
associates_always(includeContext) == TRUE

\* if (includeContext): the association and the constructor rule are behind it
associates(includeContext) == includeContext

\* a plausible slip: the return after the merge is lost and the call falls
\* through to return comment
returnMerged_fallsThrough(comment) == comment

\* return; after parentComment.constructorComment = comment
returnMerged(comment) == noComment

\* One call of _addComment on the state st = [visited, commentsByNode, recs].
\* The result holds the state after the call, the returned value (ret: the
\* index of the returned record, or noComment), whether the content parser
\* ran (parsed) and whether the debuglog note was written (note).
_addComment(st, resolve, d, commentValue, commentLoc, path, nodeLoc, includeContext) ==
  LET key == keyOf(d.file, commentLoc)
  IN
  IF hasVisited(st.visited, key)
  THEN [visited |-> st.visited, commentsByNode |-> st.commentsByNode,
        recs |-> st.recs, ret |-> noComment, parsed |-> FALSE,
        note |-> FALSE]
  ELSE
    LET context == contextOf(d, path, nodeLoc, includeContext)
        comment == parse(commentValue, commentLoc, context)
        id      == Len(st.recs) + 1
        heap    == Append(st.recs, comment)
        seen    == addVisited(st.visited, key)
        plain   == [visited |-> seen, commentsByNode |-> st.commentsByNode,
                    recs |-> heap, ret |-> id, parsed |-> TRUE,
                    note |-> FALSE]
    IN
    IF ~associates(includeContext) THEN plain
    ELSE
      LET map == mapSet(st.commentsByNode, targetOf(resolve, path), id)
          stored == [plain EXCEPT !.commentsByNode = map]
      IN
      IF ~isConstructor(path) THEN stored
      ELSE
        LET parentComment == mapGet(map, enclosingClass(path))
            noted == [stored EXCEPT !.note = ~hidesConstructor(comment)]
        IN
        IF parentComment # noComment
        THEN [noted EXCEPT
                !.recs = [heap EXCEPT
                            ![parentComment].constructorComment = id],
                !.ret = returnMerged(id)]
        ELSE IF hidesConstructor(comment)
        THEN [noted EXCEPT !.ret = noComment]
        ELSE noted

(***************************************************************************)
(* parseJavaScript                                                         *)
(***************************************************************************)
\* a plausible slip: the context flag is bound to the inner walk
strategiesOf_inner(cfg) ==
  IF cfg.documentExported
  THEN << [fn |-> "walkExported", type |-> undefined,
           includeContext |-> undefined] >>
  ELSE << [fn |-> "walkComments", type |-> "leadingComments",
           includeContext |-> FALSE],
          [fn |-> "walkComments", type |-> "innerComments",
           includeContext |-> TRUE],
          [fn |-> "walkComments", type |-> "trailingComments",
           includeContext |-> FALSE] >>

\* a plausible slip: the trailing walk is listed first, the leading walk last
strategiesOf_trailingFirst(cfg) ==
  IF cfg.documentExported
  THEN << [fn |-> "walkExported", type |-> undefined,
           includeContext |-> undefined] >>
  ELSE << [fn |-> "walkComments", type |-> "trailingComments",
           includeContext |-> FALSE],
          [fn |-> "walkComments", type |-> "innerComments",
           includeContext |-> FALSE],
          [fn |-> "walkComments", type |-> "leadingComments",
           includeContext |-> TRUE] >>

\* the walkers flatMap runs: walkExported alone, or walkComments bound to
\* the three comment categories and their includeContext flag
strategiesOf(cfg) ==
  IF cfg.documentExported
  THEN << [fn |-> "walkExported", type |-> undefined,
           includeContext |-> undefined] >>
  ELSE << [fn |-> "walkComments", type |-> "leadingComments",
           includeContext |-> TRUE],
          [fn |-> "walkComments", type |-> "innerComments",
           includeContext |-> FALSE],
          [fn |-> "walkComments", type |-> "trailingComments",
           includeContext |-> FALSE] >>

\* a plausible slip: the arrays are concatenated last walker first
RECURSIVE flatten_reversed(_)
flatten_reversed(arrays) ==
  IF arrays = <<>> THEN <<>>
  ELSE flatten_reversed(Tail(arrays)) \o Head(arrays)

\* _.flatMap: the walkers' arrays, concatenated in the order they ran
RECURSIVE flatten(_)
flatten(arrays) ==
  IF arrays = <<>> THEN <<>> ELSE Head(arrays) \o flatten(Tail(arrays))

\* a plausible slip: only the absent entries are dropped
keeps_lends(heap, comment) == comment # noComment

\* comment => comment && !comment.lends
keeps(heap, comment) == comment # noComment /\ ~heap[comment].lends

\* Array.prototype.filter with that predicate
RECURSIVE filter(_, _)
filter(heap, array) ==
  IF array = <<>> THEN <<>>
  ELSE IF keeps(heap, Head(array))
       THEN <<Head(array)>> \o filter(heap, Tail(array))
       ELSE filter(heap, Tail(array))

\* the flags a walker may pass as includeContext: walkComments passes the
\* flag it was bound with, walkExported decides for itself
flagsOf(strategy) ==
  IF strategy.fn = "walkComments" THEN {strategy.includeContext}
  ELSE BOOLEAN

idleSort == [phase |-> "idle"]

\* before the first invocation: nothing is held
InitRun ==
  /\ pc = "idle"
  /\ files = <<>>
  /\ findTarget \in FindTargets
  /\ data = undefined
  /\ config = undefined
  /\ visited = {}
  /\ commentsByNode = [n \in Nodes |-> noComment]
  /\ recs = <<>>
  /\ strategies = <<>>
  /\ si = 0
  /\ results = <<>>
  /\ output = <<>>
  /\ log = <<>>
  /\ failure = noFailure

Init == InitRun /\ sk = idleSort

\* module.exports (the source is read when the item carries none) and
\* parseJavaScript up to the call of the first walker
Enter(file, hasSource, documentExported) ==
  /\ IF pc = "idle" THEN file = FirstFile
                    ELSE pc = "done" /\ Len(files) < MaxRuns
  /\ files' = Append(files, file)
  /\ data' = [file |-> file, sortKey |-> file,
              source |-> IF hasSource THEN Source ELSE readFileSync(file)]
  /\ config' = [documentExported |-> documentExported]
  /\ visited' = newSet
  /\ commentsByNode' = newMap
  /\ recs' = <<>>
  /\ strategies' = strategiesOf(config')
  /\ si' = 1
  /\ results' = << <<>> >>
  /\ output' = <<>>
  /\ log' = <<>>
  /\ failure' = noFailure
  /\ pc' = "walking"
  /\ UNCHANGED <<findTarget, sk>>

\* the running walker finds comment c on the node at path and calls
\* addComment(data, c.value, c.loc, path, path.node.loc, includeContext),
\* pushing what it returns
Callback(c, path, includeContext) ==
  /\ pc = "walking"
  /\ Len(log) < MaxCalls
  /\ includeContext \in flagsOf(strategies[si])
  /\ LET r == _addComment(
                [visited |-> visited, commentsByNode |-> commentsByNode,
                 recs |-> recs],
                findTarget, data, c.value, c.loc, path,
                [line |-> Ast[path].line], includeContext)
     IN /\ visited' = r.visited
        /\ commentsByNode' = r.commentsByNode
        /\ recs' = r.recs
        /\ results' = [results EXCEPT ![si] = Append(@, r.ret)]
        /\ log' = Append(log,
                    [s |-> si, comment |-> c, path |-> path,
                     includeContext |-> includeContext,
                     map |-> commentsByNode, ret |-> r.ret,
                     parsed |-> r.parsed, note |-> r.note])
  /\ UNCHANGED <<pc, files, findTarget, data, config, strategies, si, output,
                 failure, sk>>

\* the running walker returns its array and flatMap calls the next one
NextWalker ==
  /\ pc = "walking"
  /\ si < Len(strategies)
  /\ si' = si + 1
  /\ results' = Append(results, <<>>)
  /\ UNCHANGED <<pc, files, findTarget, data, config, visited, commentsByNode,
                 recs, strategies, output, log, failure, sk>>

\* the last walker returns; flatMap flattens, filter drops the absent and the
\* lends entries, parseJavaScript returns
Return ==
  /\ pc = "walking"
  /\ si = Len(strategies)
  /\ output' = filter(recs, flatten(results))
  /\ pc' = "done"
  /\ UNCHANGED <<files, findTarget, data, config, visited, commentsByNode, recs,
                 strategies, si, results, log, failure, sk>>

\* one invocation of parseJavaScript
First(documentExported) ==
  pc = "idle" /\ \E hasSource \in BOOLEAN :
                   Enter(FirstFile, hasSource, documentExported)

\* a further invocation, after the previous one returned
Again(file, documentExported) ==
  pc = "done" /\ \E hasSource \in BOOLEAN :
                   Enter(file, hasSource, documentExported)

Next ==
  \/ \E documentExported \in BOOLEAN : First(documentExported)
  \/ \E c \in Comments, path \in CommentedNodes, includeContext \in BOOLEAN :
       Callback(c, path, includeContext)
  \/ NextWalker
  \/ Return

Spec == Init /\ [][Next]_vars

\* a callback of one of several runs
ShortCallback(c, path, includeContext) ==
  Len(log) < MaxRunCalls /\ Callback(c, path, includeContext)

\* several invocations, one after the other
NextRuns ==
  \/ \E documentExported \in BOOLEAN : First(documentExported)
  \/ \E file \in Files, documentExported \in BOOLEAN :
       Again(file, documentExported)
  \/ \E c \in Comments, path \in CommentedNodes, includeContext \in BOOLEAN :
       ShortCallback(c, path, includeContext)
  \/ NextWalker
  \/ Return

SpecRuns == Init /\ [][NextRuns]_vars

(***************************************************************************)
(* Runs in which a collaborator fails                                      *)
(***************************************************************************)
\* what parseToAst or parse may raise
Errors == {"SyntaxError", "TypeError"}

\* a plausible slip: the error is caught and raised again as another one
propagate_wrapped(e) == "Error"

\* no try statement anywhere: what a collaborator raises leaves
\* parseJavaScript as it is
propagate(e) == e

\* module.exports and parseJavaScript up to parseToAst, which raises e: the
\* set and the map exist, no walker was chosen, nothing is returned
SyntaxThrows(documentExported, hasSource, e) ==
  /\ pc = "idle"
  /\ files' = Append(files, FirstFile)
  /\ data' = [file |-> FirstFile, sortKey |-> FirstFile,
              source |-> IF hasSource THEN Source ELSE readFileSync(FirstFile)]
  /\ config' = [documentExported |-> documentExported]
  /\ visited' = newSet
  /\ commentsByNode' = newMap
  /\ failure' = [raised |-> e, thrown |-> propagate(e)]
  /\ pc' = "thrown"
  /\ UNCHANGED <<findTarget, recs, strategies, si, results, output, log, sk>>

\* the running walker calls addComment for a comment not yet visited and
\* parse raises e: the key was added, no record was made, the error unwinds
\* the walker, flatMap and parseJavaScript, nothing is returned
ParseThrows(c, path, includeContext, e) ==
  /\ pc = "walking"
  /\ Len(log) < MaxRunCalls
  /\ includeContext \in flagsOf(strategies[si])
  /\ ~hasVisited(visited, keyOf(data.file, c.loc))
  /\ visited' = addVisited(visited, keyOf(data.file, c.loc))
  /\ failure' = [raised |-> e, thrown |-> propagate(e)]
  /\ pc' = "thrown"
  /\ UNCHANGED <<files, findTarget, data, config, commentsByNode, recs,
                 strategies, si, results, output, log, sk>>

\* one invocation, in which the syntax parser or the content parser may fail
NextFail ==
  \/ \E documentExported \in BOOLEAN : First(documentExported)
  \/ \E documentExported \in BOOLEAN, hasSource \in BOOLEAN, e \in Errors :
       SyntaxThrows(documentExported, hasSource, e)
  \/ \E c \in Comments, path \in CommentedNodes, includeContext \in BOOLEAN :
       ShortCallback(c, path, includeContext)
  \/ \E c \in Comments, path \in CommentedNodes, includeContext \in BOOLEAN,
        e \in Errors :
       ParseThrows(c, path, includeContext, e)
  \/ NextWalker
  \/ Return

SpecFail == Init /\ [][NextFail]_vars

(***************************************************************************)
(* The sort-key builder on its own: two lines of one traversal pass        *)
(***************************************************************************)
Bases == { <<97>>, <<98, 32, 49>> }          \* "a", "b 1"

\* lines of [1, 99999999] around every change of the number of digits
LineSamples ==
  {1, 2, 9, 10, 11, 99, 100, 999, 1000, 9999, 10000, 99999, 100000, 999999,
   1000000, 9999999, 10000000, 12345678, 99999998, 99999999}

InitSort ==
  /\ InitRun
  /\ sk \in {[phase |-> "input", base |-> b, l1 |-> x, l2 |-> y] :
               b \in Bases, x \in LineSamples, y \in LineSamples}

\* the sort keys _addComment builds for the two lines
BuildSortKeys ==
  /\ sk.phase = "input"
  /\ sk' = [phase |-> "built", base |-> sk.base, l1 |-> sk.l1, l2 |-> sk.l2,
            pad1 |-> leftPad(sk.l1, Width), pad2 |-> leftPad(sk.l2, Width),
            key1 |-> sortKeyOf(sk.base, sk.l1),
            key2 |-> sortKeyOf(sk.base, sk.l2)]
  /\ UNCHANGED runVars

NextSort == BuildSortKeys

SpecSort == InitSort /\ [][NextSort]_vars

(***************************************************************************)
(* Reading the history of a run                                            *)
(***************************************************************************)
Calls == 1..Len(log)

Range(seq) == {seq[i] : i \in 1..Len(seq)}

\* the key of the comment callback i was about
KeyAt(i) == keyOf(data.file, log[i].comment.loc)

\* callback i is the first of the run for its comment position
FirstFor(i) == \A h \in 1..(i - 1) : KeyAt(h) # KeyAt(i)

\* the record the content parser made in callback i: its invocations so far
RecOf(i) == Cardinality({h \in 1..i : log[h].parsed})

\* the comment of callback i carries the tag
Tagged(i, tag) == tag \in log[i].comment.value

\* callback i is for a constructor
OnCtorPath(i) ==
  /\ Ast[log[i].path].type = "ClassMethod"
  /\ Ast[log[i].path].kind = "constructor"

\* callback i is for a constructor, with context: the constructor rule applies
OnConstructor(i) == log[i].includeContext /\ OnCtorPath(i)

\* the node the comment of callback i is stored under
StoredUnder(i) ==
  IF findTarget[log[i].path] = undefined THEN log[i].path
  ELSE findTarget[log[i].path]

\* what the association map holds for the class enclosing the constructor of
\* callback i when the constructor rule consults it: the map the call found,
\* with the call's own record stored if the call has context
HeldForClass(i) ==
  LET class == Ast[Ast[log[i].path].parent].parent
  IN IF log[i].includeContext /\ StoredUnder(i) = class THEN RecOf(i)
     ELSE log[i].map[class]

\* the constructor rule keeps callback i from returning its record
Suppressed(i) ==
  OnConstructor(i) /\ (HeldForClass(i) # noComment \/ Tagged(i, "hideconstructor"))

(***************************************************************************)
(* C1.  As claimed: within one run, the first _addComment call for a       *)
(* comment position yields a record and every later call for the same      *)
(* position yields nothing, whatever the calls in between and whatever      *)
(* path or includeContext the calls carry.                                  *)
(***************************************************************************)
C1_AsClaimed ==
  \A i \in Calls :
    IF FirstFor(i) THEN log[i].ret # noComment ELSE log[i].ret = noComment

(***************************************************************************)
(* C1, amended.  The first call for a comment position has the comment     *)
(* parsed and yields its record unless the constructor rule suppresses it   *)
(* (a call with context on a constructor returns nothing when the map holds *)
(* a record for the enclosing class or the comment is marked                *)
(* hideconstructor); every later call for the same position yields nothing  *)
(* and parses nothing.                                                      *)
(***************************************************************************)
C1_DedupIdempotence ==
  \A i \in Calls :
    IF FirstFor(i)
    THEN /\ log[i].parsed
         /\ recs[RecOf(i)].loc = log[i].comment.loc
         /\ log[i].ret = IF Suppressed(i) THEN noComment ELSE RecOf(i)
    ELSE /\ ~log[i].parsed
         /\ log[i].ret = noComment

\* a position called three times, with another position in between and a
\* different path and flag on the repeats: record first, nothing afterwards
C1_Witness ==
  /\ Len(log) = 3
  /\ KeyAt(1) = KeyAt(3) /\ KeyAt(2) # KeyAt(1)
  /\ log[1].ret # noComment /\ log[3].ret = noComment
  /\ log[1].path # log[3].path
  /\ log[1].includeContext # log[3].includeContext

(***************************************************************************)
(* C2.  In every state of a run the content parser has been invoked at     *)
(* most once per comment key, however many callbacks referenced the         *)
(* comment, and the number of its invocations is the size of the visited    *)
(* set.                                                                     *)
(***************************************************************************)
C2_ParsedOncePerKey ==
  /\ Len(recs) = Cardinality(visited)
  /\ Len(recs) = Cardinality({i \in Calls : log[i].parsed})
  /\ \A i, j \in Calls :
       log[i].parsed /\ log[j].parsed /\ KeyAt(i) = KeyAt(j) => i = j
  /\ visited = {KeyAt(i) : i \in Calls}

\* one comment delivered by the leading, the inner and the trailing walk
C2_Witness ==
  /\ Len(log) = 3
  /\ KeyAt(1) = KeyAt(2) /\ KeyAt(2) = KeyAt(3)
  /\ log[1].s = 1 /\ log[2].s = 2 /\ log[3].s = 3
  /\ Len(recs) = 1

(***************************************************************************)
(* The constructor rule                                                    *)
(***************************************************************************)
\* callback i had its comment parsed with context, for the class node
ClassCall(i) ==
  /\ log[i].parsed /\ log[i].includeContext
  /\ Ast[log[i].path].type = "ClassDeclaration"

\* callback j had its comment parsed with context, for the constructor
CtorCall(j) == log[j].parsed /\ OnConstructor(j)

\* callback j merged its record into record p
MergedInto(j, p) == CtorCall(j) /\ p # noComment /\ HeldForClass(j) = p

\* the class node of the constructor of callback j
ClassOf(j) == Ast[Ast[log[j].path].parent].parent

\* the record of callback i is the one stored for the class of the
\* constructor of callback j when j looks it up: nothing was stored for that
\* node after i, by j itself or by a callback in between
StillHeld(i, j) ==
  /\ i < j /\ log[i].parsed /\ log[i].includeContext
  /\ StoredUnder(i) = ClassOf(j)
  /\ \A h \in (i + 1)..j :
       log[h].parsed /\ log[h].includeContext => StoredUnder(h) # ClassOf(j)

(***************************************************************************)
(* C3.  As claimed: if the comment record of a class was produced (with    *)
(* context) before the comment of its constructor is processed, then at the *)
(* end of the run the constructor's record is no top-level element of the   *)
(* output and the class's record is in the output with the constructor's    *)
(* record as its constructorComment.                                        *)
(***************************************************************************)
C3_AsClaimed ==
  pc = "done" =>
    \A i, j \in Calls :
      i < j /\ ClassCall(i) /\ CtorCall(j) /\ log[i].path = ClassOf(j) =>
        /\ RecOf(j) \notin Range(output)
        /\ RecOf(i) \in Range(output)
        /\ recs[RecOf(i)].constructorComment = RecOf(j)

(***************************************************************************)
(* C3, amended.  If the record of the class is the one the association map *)
(* holds for the class node when the constructor's comment (parsed, with    *)
(* context) looks it up - it is when it was the last record stored for that *)
(* node - then the callback returns nothing, the constructor's record is    *)
(* never a top-level element of the output, and the class's record has it   *)
(* as constructorComment until a later constructor comment merged into the  *)
(* same record replaces it; the class's record is in the output exactly     *)
(* when its own callback returned it and it is not marked lends.            *)
(***************************************************************************)
C3_ConstructorMerge ==
  /\ \A i, j \in Calls : StillHeld(i, j) /\ CtorCall(j) => MergedInto(j, RecOf(i))
  /\ \A j \in Calls : \A p \in 1..Len(recs) :
       MergedInto(j, p) =>
         /\ log[j].ret = noComment
         /\ RecOf(j) \notin Range(output)
         /\ \/ recs[p].constructorComment = RecOf(j)
            \/ \E k \in (j + 1)..Len(log) :
                 MergedInto(k, p) /\ recs[p].constructorComment = RecOf(k)
  /\ pc = "done" =>
       \A i \in Calls :
         log[i].parsed =>
           (RecOf(i) \in Range(output)
              <=> log[i].ret = RecOf(i) /\ ~Tagged(i, "lends"))

\* a class and its constructor, both documented, the class's comment not
\* lends, the constructor's neither hidden nor lends:
\* one record in the output, the class's, holding the constructor's
C3_Witness ==
  /\ pc = "done" /\ Len(log) = 2
  /\ ClassCall(1) /\ CtorCall(2) /\ StillHeld(1, 2)
  /\ ~Tagged(1, "lends") /\ log[2].comment.value = {}
  /\ output = <<1>>
  /\ recs[1].constructorComment = 2

(***************************************************************************)
(* C4.  When a constructor comment marked hideconstructor is processed      *)
(* with context and the association map holds no record for the enclosing   *)
(* class, the callback returns nothing and the constructor's record is      *)
(* neither in the output nor the constructorComment of any record.          *)
(***************************************************************************)
C4_HiddenWithoutParent ==
  \A j \in Calls :
    CtorCall(j) /\ Tagged(j, "hideconstructor") /\ HeldForClass(j) = noComment =>
      /\ log[j].ret = noComment
      /\ RecOf(j) \notin Range(output)
      /\ \A r \in 1..Len(recs) : recs[r].constructorComment # RecOf(j)

\* the hidden constructor comment came first, the class was documented and
\* another constructor comment merged afterwards, and the run is over
C4_Witness ==
  /\ pc = "done" /\ Len(log) = 3
  /\ CtorCall(1) /\ Tagged(1, "hideconstructor") /\ HeldForClass(1) = noComment
  /\ ClassCall(2) /\ log[2].ret = 2
  /\ MergedInto(3, 2)
  /\ output = <<2>>

(***************************************************************************)
(* C5.  When a constructor comment marked neither hideconstructor nor lends *)
(* is processed for the first time and the association map holds no record  *)
(* for the enclosing class, the constructor's record is returned and is a   *)
(* top-level element of the output.                                         *)
(***************************************************************************)
C5_StandaloneWithoutParent ==
  \A j \in Calls :
    /\ log[j].parsed /\ OnCtorPath(j)
    /\ ~Tagged(j, "hideconstructor") /\ ~Tagged(j, "lends")
    /\ HeldForClass(j) = noComment
    => /\ log[j].ret = RecOf(j)
       /\ pc = "done" => RecOf(j) \in Range(output)

\* an undocumented class whose constructor is documented: the constructor's
\* record is the output
C5_Witness ==
  /\ pc = "done" /\ Len(log) = 1
  /\ CtorCall(1) /\ log[1].comment.value = {} /\ HeldForClass(1) = noComment
  /\ output = <<1>>
  /\ recs[1].context.ast = "Ctor"

(***************************************************************************)
(* C6.  No element of the sequence parseJavaScript returns is a record      *)
(* marked lends, under either strategy, although _addComment produces such  *)
(* records, returns them and stores them in the association map.            *)
(***************************************************************************)
C6_LendsFiltered ==
  /\ \A r \in Range(output) : r \in 1..Len(recs) /\ ~recs[r].lends
  /\ \A i \in Calls :
       log[i].parsed /\ Tagged(i, "lends") => RecOf(i) \notin Range(output)

\* a lends comment was parsed with context, returned by the callback and is
\* in the map, and the run returned the other record only
C6_Witness ==
  /\ pc = "done" /\ Len(log) = 2
  /\ Tagged(1, "lends") /\ log[1].includeContext /\ log[1].ret = 1
  /\ commentsByNode[StoredUnder(1)] = 1
  /\ recs[1].lends
  /\ log[2].ret = 2
  /\ output = <<2>>

(***************************************************************************)
(* C7.  For a fixed base key and two lines L1 < L2 of [1, 99999999], the   *)
(* sort key built for L1 is strictly less, as a plain string, than the one  *)
(* built for L2, and leftPad yields exactly 8 characters for such a line.   *)
(***************************************************************************)
C7_SortKeyMonotone ==
  sk.phase = "built" =>
    /\ Len(sk.pad1) = 8 /\ Len(sk.pad2) = 8
    /\ sk.key1 = sk.base \o <<32>> \o sk.pad1
    /\ sk.l1 < sk.l2 => StrLess(sk.key1, sk.key2)

\* a one-digit line against an eight-digit one
C7_Witness ==
  sk.phase = "built" /\ sk.l1 = 9 /\ sk.l2 = 10000000

(***************************************************************************)
(* C8.  The output is the callbacks' returns in the order they were made - *)
(* the leading walk's, then the inner walk's, then the trailing walk's -    *)
(* with the absent and the lends entries removed; it is never reordered by  *)
(* sortKey.                                                                 *)
(***************************************************************************)
Survives(e) == e.ret # noComment /\ "lends" \notin e.comment.value

Returned(entries) == [i \in 1..Len(entries) |-> entries[i].ret]

FromWalker(s) == SelectSeq(log, LAMBDA e : e.s = s)

C8_OutputInCallOrder ==
  /\ \A i, j \in Calls : i < j => log[i].s <= log[j].s
  /\ \A s \in 1..Len(results) : results[s] = Returned(FromWalker(s))
  /\ pc = "done" => output = Returned(SelectSeq(log, Survives))

\* the leading walk returned a record for line 100 and a lends record, the
\* trailing walk a record for line 9: the output keeps the call order
C8_Witness ==
  /\ pc = "done" /\ Len(log) = 3
  /\ log[1].s = 1 /\ log[2].s = 1 /\ log[3].s = 3
  /\ log[2].ret = 2 /\ recs[2].lends
  /\ output = <<1, 3>>
  /\ StrLess(recs[3].context.sortKey, recs[1].context.sortKey)

(***************************************************************************)
(* C9.  With config.documentExported only the exported-symbols walker      *)
(* runs, once; otherwise the leading, the inner and the trailing comment    *)
(* walks run once each, in that order, with includeContext true for the     *)
(* leading walk only, and the exported walker never runs.                   *)
(***************************************************************************)
Walked == SubSeq(strategies, 1, si)

CommentWalks ==
  << [fn |-> "walkComments", type |-> "leadingComments", includeContext |-> TRUE],
     [fn |-> "walkComments", type |-> "innerComments", includeContext |-> FALSE],
     [fn |-> "walkComments", type |-> "trailingComments", includeContext |-> FALSE] >>

C9_StrategySelection ==
  pc # "idle" =>
    IF config.documentExported
    THEN /\ Len(Walked) = 1 /\ Walked[1].fn = "walkExported"
         /\ \A i \in Calls : log[i].s = 1
    ELSE /\ Walked = SubSeq(CommentWalks, 1, si)
         /\ pc = "done" => Walked = CommentWalks
         /\ \A i \in Calls :
              /\ log[i].s \in 1..3
              /\ log[i].includeContext <=> log[i].s = 1

\* the three comment walks each delivered a comment and the run is over
C9_Witness ==
  /\ pc = "done" /\ ~config.documentExported
  /\ Len(log) = 3
  /\ log[1].s = 1 /\ log[2].s = 2 /\ log[3].s = 3
  /\ log[1].includeContext /\ ~log[2].includeContext /\ ~log[3].includeContext

(***************************************************************************)
(* C10.  The visited set and the association map are created empty at the  *)
(* start of every parseJavaScript call: whatever runs came before, also on  *)
(* the same file, every callback of a run returns what it returns when the  *)
(* run is executed alone, and so does the run.                              *)
(***************************************************************************)
\* the callbacks of the log from i on, made on the state st
RECURSIVE Replay(_, _)
Replay(st, i) ==
  IF i > Len(log) THEN st
  ELSE LET r == _addComment(st, findTarget, data, log[i].comment.value,
                            log[i].comment.loc, log[i].path,
                            [line |-> Ast[log[i].path].line],
                            log[i].includeContext)
       IN Replay([visited |-> r.visited, commentsByNode |-> r.commentsByNode,
                  recs |-> r.recs, rets |-> Append(st.rets, r.ret)], i + 1)

\* the run executed alone: its callbacks on an empty set and an empty map
Alone ==
  Replay([visited |-> {}, commentsByNode |-> [n \in Nodes |-> noComment],
          recs |-> <<>>, rets |-> <<>>], 1)

C10_FreshPerRun ==
  pc # "idle" =>
    /\ Returned(log) = Alone.rets
    /\ recs = Alone.recs
    /\ visited = Alone.visited
    /\ commentsByNode = Alone.commentsByNode
    /\ pc = "done" => output = filter(Alone.recs, Alone.rets)

\* the same file processed twice in a row: the second run parsed a class
\* comment and a constructor comment again and merged them
C10_Witness ==
  /\ pc = "done"
  /\ Len(files) = 2 /\ files[1] = files[2]
  /\ Len(log) = 2 /\ log[1].parsed /\ log[2].parsed
  /\ output = <<1>>
  /\ recs[1].constructorComment = 2

(***************************************************************************)
(* C11.  No partial success: when the syntax parser or the content parser  *)
(* raises an error during a run, parseJavaScript ends with that very error  *)
(* and returns no sequence, whatever records the callbacks before the       *)
(* failure returned; when no collaborator fails, the run returns the full   *)
(* sequence: every record a callback returned that is not marked lends.     *)
(***************************************************************************)
C11_NoPartialSuccess ==
  /\ failure.raised # noError =>
       /\ pc = "thrown"
       /\ failure.thrown = failure.raised
       /\ output = <<>>
  /\ pc = "thrown" => failure.raised # noError
  /\ pc = "done" =>
       /\ failure = noFailure
       /\ \A i \in Calls :
            log[i].ret # noComment /\ ~recs[log[i].ret].lends
              => log[i].ret \in Range(output)
       /\ Len(output) =
            Cardinality({i \in Calls :
                           log[i].ret # noComment /\ ~recs[log[i].ret].lends})

\* a callback had returned a record that is not lends when the content
\* parser failed on the next comment: the run ended with the error
C11_Witness ==
  /\ pc = "thrown" /\ failure.raised = "TypeError"
  /\ Len(log) = 1 /\ log[1].ret = 1 /\ ~recs[1].lends
  /\ Cardinality(visited) = 2
  /\ output = <<>>

(***************************************************************************)
(* Leading and trailing visits of one comment                              *)
(***************************************************************************)
\* callback i was made by the walk of the comments of that category
InWalk(i, type) == strategies[log[i].s].type = type

\* statement a comes before statement b in the same body
PreviousSibling(a, b) ==
  Ast[a].parent = Ast[b].parent /\ Ast[a].end <= Ast[b].start

\* the comment of callback i was delivered as a leading comment of its
\* statement and, by callback j, as a trailing comment of the sibling before
DoubleVisit(i, j) ==
  /\ InWalk(i, "leadingComments") /\ InWalk(j, "trailingComments")
  /\ PreviousSibling(log[j].path, log[i].path)
  /\ KeyAt(i) = KeyAt(j)

\* the elements of the output that are records of the comment of callback i
EmittedFor(i) ==
  {k \in 1..Len(output) : recs[output[k]].loc = log[i].comment.loc}

(***************************************************************************)
(* C12.  As claimed: when a comment is delivered both as a leading comment *)
(* of one statement and as a trailing comment of its previous sibling,      *)
(* exactly one record for it is in the output of the run, the one of the    *)
(* leading pass.                                                            *)
(***************************************************************************)
C12_AsClaimed ==
  pc = "done" =>
    \A i, j \in Calls :
      DoubleVisit(i, j) /\ FirstFor(i) =>
        /\ Cardinality(EmittedFor(i)) = 1
        /\ RecOf(i) \in Range(output)

(***************************************************************************)
(* C12, amended.  When a comment is delivered both as a leading comment of *)
(* one statement and as a trailing comment of its previous sibling, the     *)
(* leading delivery comes first; if it is the first delivery of the         *)
(* comment, the one record made for the comment is the leading pass's,      *)
(* built with context for the statement the comment leads, the trailing     *)
(* delivery parses and returns nothing, and the output holds that record    *)
(* once - unless the comment is marked lends, and then the output holds no  *)
(* record for it.  So a run whose comments are not lends and sit on         *)
(* sibling statements returns exactly one record per comment.               *)
(***************************************************************************)
C12_DoubleVisit ==
  /\ \A i, j \in Calls :
       DoubleVisit(i, j) =>
         /\ i < j
         /\ ~log[j].parsed /\ log[j].ret = noComment
         /\ FirstFor(i) =>
              /\ log[i].ret = RecOf(i)
              /\ recs[RecOf(i)].context.ast = log[i].path
              /\ recs[RecOf(i)].context.code # undefined
              /\ \A r \in 1..Len(recs) :
                   recs[r].loc = log[i].comment.loc => r = RecOf(i)
              /\ pc = "done" =>
                   EmittedFor(i) = {k \in 1..Len(output) : output[k] = RecOf(i)}
                   /\ Cardinality(EmittedFor(i)) =
                        IF Tagged(i, "lends") THEN 0 ELSE 1
  /\ pc = "done"
       /\ (\A i \in Calls : ~Tagged(i, "lends") /\ ~OnCtorPath(i))
       => Len(output) = Cardinality(visited)

\* two sibling statements, each led by a comment, the second comment also
\* delivered as a trailing comment of the first statement: two records
C12_Witness ==
  /\ pc = "done" /\ Len(log) = 3
  /\ log[1].path = "Class" /\ log[2].path = "VarDecl"
  /\ InWalk(1, "leadingComments") /\ KeyAt(1) # KeyAt(2)
  /\ DoubleVisit(2, 3) /\ log[3].path = "Class"
  /\ output = <<1, 2>>
  /\ recs[2].context.ast = "VarDecl"

(***************************************************************************)
(* Steps                                                                   *)
(***************************************************************************)
\* this step is one callback of the running walker
IsCallback == pc = "walking" /\ Len(log') = Len(log) + 1

\* the callback this step made, as the history holds it
Made == log'[Len(log')]

(***************************************************************************)
(* C13.  A callback for a comment key that is already in the visited set   *)
(* changes nothing: the visited set, the association map, the records       *)
(* (their number, which is the number of content-parser invocations, and    *)
(* every constructorComment field) stay as they are, no note is written     *)
(* and nothing is returned, whatever path and includeContext flag the call  *)
(* carries.                                                                 *)
(***************************************************************************)
C13_RepeatHasNoEffect ==
  [][ IsCallback /\ keyOf(data.file, Made.comment.loc) \in visited =>
        /\ visited' = visited
        /\ commentsByNode' = commentsByNode
        /\ recs' = recs
        /\ ~Made.parsed /\ ~Made.note /\ Made.ret = noComment ]_vars

\* a comment first delivered without context for the class, once the class
\* is documented, is delivered again with context for the constructor:
\* nothing is stored for the constructor and nothing is merged
C13_Witness ==
  /\ Len(log) = 3
  /\ ClassCall(1)
  /\ log[2].parsed /\ ~log[2].includeContext /\ log[2].path = "Class"
  /\ KeyAt(3) = KeyAt(2)
  /\ log[3].includeContext /\ log[3].path = "Ctor"
  /\ ~log[3].parsed /\ ~log[3].note
  /\ commentsByNode = log[3].map
  /\ commentsByNode["Class"] = 1 /\ commentsByNode[StoredUnder(3)] # 2
  /\ recs[1].constructorComment = noComment
  /\ Len(recs) = 2

(***************************************************************************)
(* C14.  A first-time callback without context stores nothing in the       *)
(* association map, leaves every record there was as it is (its             *)
(* constructorComment too), writes no note, and returns the record the      *)
(* content parser made - also on a constructor whose class has a stored     *)
(* record, and also for a comment marked hideconstructor.                   *)
(***************************************************************************)
C14_NoContextNoAssociation ==
  [][ /\ IsCallback
      /\ keyOf(data.file, Made.comment.loc) \notin visited
      /\ ~Made.includeContext
      => /\ commentsByNode' = commentsByNode
         /\ Len(recs') = Len(recs) + 1
         /\ SubSeq(recs', 1, Len(recs)) = recs
         /\ Made.parsed /\ ~Made.note
         /\ Made.ret = Len(recs')
         /\ recs'[Made.ret].loc = Made.comment.loc
         /\ recs'[Made.ret].constructorComment = noComment ]_vars

\* the class is documented; the trailing walk then delivers a comment marked
\* hideconstructor on the constructor: it is returned, and not merged
C14_Witness ==
  /\ Len(log) = 2
  /\ ClassCall(1) /\ commentsByNode["Class"] = 1
  /\ InWalk(2, "trailingComments") /\ ~log[2].includeContext
  /\ OnCtorPath(2) /\ Tagged(2, "hideconstructor")
  /\ log[2].parsed /\ log[2].ret = 2
  /\ commentsByNode = log[2].map
  /\ recs[1].constructorComment = noComment

(***************************************************************************)
(* C15.  Reordered visits, as claimed: if the comment of a constructor,    *)
(* marked neither hideconstructor nor lends, is processed before any        *)
(* comment of the enclosing class was stored, then at the end of the run    *)
(* the constructor's record is a top-level element of the output, and a     *)
(* record made later for the class (not lends) is in the output and does    *)
(* not hold the constructor's record as constructorComment.                 *)
(***************************************************************************)
C15_ReorderedVisits ==
  pc = "done" =>
    \A j \in Calls :
      /\ log[j].parsed /\ OnCtorPath(j)
      /\ ~Tagged(j, "hideconstructor") /\ ~Tagged(j, "lends")
      /\ \A i \in 1..(j - 1) : ~ClassCall(i)
      => /\ RecOf(j) \in Range(output)
         /\ \A i \in (j + 1)..Len(log) :
              ClassCall(i) /\ ~Tagged(i, "lends") =>
                /\ RecOf(i) \in Range(output)
                /\ recs[RecOf(i)].constructorComment # RecOf(j)

(***************************************************************************)
(* Writes of the association map                                           *)
(***************************************************************************)
\* callback i stored its record in the association map
Stores(i) == log[i].parsed /\ log[i].includeContext

\* the callbacks that stored a record under node n
StoresUnder(n) == {i \in Calls : Stores(i) /\ StoredUnder(i) = n}

\* the last of a non-empty set of callbacks
Last(S) == CHOOSE i \in S : \A h \in S : h <= i

\* the association map after callback j, or now when j is the last one
MapAfter(j) == IF j = Len(log) THEN commentsByNode ELSE log[j + 1].map

(***************************************************************************)
(* C16.  As claimed: the association map holds one record per target node, *)
(* the last one stored for it; when two comments processed with context     *)
(* were stored for the class node, a constructor comment processed next     *)
(* (with context) is attached to the later of the two; and a second         *)
(* constructor comment merged into the same record replaces the first as    *)
(* its constructorComment.                                                  *)
(***************************************************************************)
C16_LastWriteWins ==
  /\ \A n \in Nodes :
       commentsByNode[n] =
         IF StoresUnder(n) = {} THEN noComment ELSE RecOf(Last(StoresUnder(n)))
  /\ \A i, k, j \in Calls :
       /\ i < k /\ k < j /\ CtorCall(j)
       /\ Stores(i) /\ Stores(k)
       /\ log[i].path = ClassOf(j) /\ log[k].path = ClassOf(j)
       /\ StoredUnder(i) = ClassOf(j) /\ StoredUnder(k) = ClassOf(j)
       /\ \A h \in (k + 1)..(j - 1) : ~Stores(h)
       => /\ log[j].ret = noComment
          /\ MapAfter(j)[ClassOf(j)] = RecOf(k)
          /\ \/ recs[RecOf(k)].constructorComment = RecOf(j)
             \/ \E m \in (j + 1)..Len(log) : MergedInto(m, RecOf(k))
  /\ \A j, m \in Calls : \A p \in 1..Len(recs) :
       j < m /\ MergedInto(j, p) /\ MergedInto(m, p)
         => recs[p].constructorComment # RecOf(j)

(***************************************************************************)
(* C17.  No loss of documentation, as claimed: at the end of a run every   *)
(* record the content parser made that is not marked lends, and is not the  *)
(* record of a hideconstructor constructor comment that found no parent,    *)
(* is an element of the output or the constructorComment of an element of   *)
(* the output; a constructor record whose callback returned nothing         *)
(* because the class record was found is among the latter.                  *)
(***************************************************************************)
HiddenWithoutParent(i) ==
  CtorCall(i) /\ Tagged(i, "hideconstructor") /\ HeldForClass(i) = noComment

Reachable(r) ==
  \/ r \in Range(output)
  \/ \E e \in Range(output) : recs[e].constructorComment = r

C17_NoLoss ==
  pc = "done" =>
    \A i \in Calls :
      log[i].parsed /\ ~Tagged(i, "lends") /\ ~HiddenWithoutParent(i)
        => Reachable(RecOf(i))

(***************************************************************************)
(* C18.  In every state the records callbacks returned and the records     *)
(* attached as a constructorComment are disjoint: a record is attached      *)
(* only by the callback that made it, which returns nothing; every record   *)
(* is returned by at most one callback, the one that made it; and no        *)
(* record occurs twice in the output.                                       *)
(***************************************************************************)
ReturnedRecs == {log[i].ret : i \in Calls} \ {noComment}

AttachedRecs ==
  {recs[r].constructorComment : r \in 1..Len(recs)} \ {noComment}

C18_ReturnedOrAttached ==
  /\ ReturnedRecs \cap AttachedRecs = {}
  /\ \A i \in Calls :
       /\ log[i].ret # noComment => log[i].parsed /\ log[i].ret = RecOf(i)
       /\ log[i].parsed /\ RecOf(i) \in AttachedRecs
            => log[i].ret = noComment /\ CtorCall(i)
  /\ \A i, j \in Calls :
       log[i].ret # noComment /\ log[i].ret = log[j].ret => i = j
  /\ \A k, l \in 1..Len(output) : output[k] = output[l] => k = l

\* a class record that was returned holds an attached constructor record,
\* and another record was returned: the output holds the two returned ones
C18_Witness ==
  /\ pc = "done" /\ Len(log) = 3
  /\ ReturnedRecs = {1, 3} /\ AttachedRecs = {2}
  /\ recs[1].constructorComment = 2
  /\ log[2].ret = noComment
  /\ output = <<1, 3>>

(***************************************************************************)
(* C19.  No self-merge, as claimed: whatever the target resolution, no     *)
(* record is its own constructorComment - the record the constructor rule   *)
(* finds for the enclosing class is never the constructor's own record.     *)
(***************************************************************************)
C19_NoSelfMerge ==
  /\ \A r \in 1..Len(recs) : recs[r].constructorComment # r
  /\ \A j \in Calls : CtorCall(j) => HeldForClass(j) # RecOf(j)

====
